---- MODULE Spec2Model ----
(***************************************************************************)
(* CNAV frontend: the questionnaire progress tracker (company store), the  *)
(* auditor evaluation tracker (auditor store), the pages that drive them   *)
(* and the API layer's fallback pagination.                                *)
(***************************************************************************)
EXTENDS Integers, Sequences, FiniteSets, TLC

(***************************************************************************)
(* Bounds                                                                  *)
(***************************************************************************)
\* number of distinct question identifiers the environment can produce
NumQuestionIds == 2

\* number of question fetches of abandoned page visits that may be in flight
MaxStaleLoads == 1

(***************************************************************************)
(* Values                                                                  *)
(***************************************************************************)
QIdNames == <<"q1", "q2", "q3", "q4">>

QIds == {QIdNames[i] : i \in 1..NumQuestionIds}

\* the property key a missing field (undefined) is coerced to
Undef == "undefined"

Keys == QIds \cup {Undef}

\* two companies, enough to switch from one to another
CompanyIds == {"1", "c2"}

\* null (no company, no value)
Null == "null"

\* answer texts are character sequences; " " stands for any whitespace
\* the empty text, a whitespace-only text and a padded non-blank text
Texts == {<<>>, <<" ">>, <<" ", "a">>}

\* a File attached to an answer, and what JSON.stringify makes of it: a File
\* has no enumerable own property, so it is written as {}
File == "File"

StoredFile == "{}"

\* the files argument of setAnswer: none (undefined or []) or one File
FileLists == {<<>>, <<File>>}

RECURSIVE TrimStart(_)
TrimStart(s) ==
    IF s = <<>> THEN <<>>
    ELSE IF Head(s) = " " THEN TrimStart(Tail(s)) ELSE s

RECURSIVE TrimEnd(_)
TrimEnd(s) ==
    IF s = <<>> THEN <<>>
    ELSE IF s[Len(s)] = " " THEN TrimEnd(SubSeq(s, 1, Len(s) - 1)) ELSE s

\* String.prototype.trim
Trim(s) == TrimEnd(TrimStart(s))

\* JS truthiness of a string
Truthy(s) == s /= <<>>

\* a question as the stores see it: its id field and its _id field
Question(i, u) == [id |-> i, _id |-> u]

NoDup(s) == \A i, j \in DOMAIN s : i /= j => s[i] /= s[j]

\* the duplicate-free sequences over S of length at most n
SeqsNoDup(S, n) ==
    UNION {{s \in [1..k -> S] : NoDup(s)} : k \in 0..n}

\* question lists with distinct ids whose questions carry _id
QuestionLists ==
    {[k \in 1..Len(s) |-> Question(s[k], s[k])] :
        s \in SeqsNoDup(QIds, NumQuestionIds)}

\* the first n questions of the catalogue, carrying _id
QuestionPrefix(n) == [k \in 1..n |-> Question(QIdNames[k], QIdNames[k])]

\* the first n questions of the catalogue, carrying id only
QuestionPrefixNoUnderscoreId(n) ==
    [k \in 1..n |-> Question(QIdNames[k], Undef)]

\* response bodies of GET /questions: the catalogue as it grows, in either
\* shape
BackendQuestionLists ==
    {QuestionPrefix(n) : n \in 0..NumQuestionIds}
        \cup {QuestionPrefixNoUnderscoreId(n) : n \in 0..NumQuestionIds}

EmptyMap == [k \in {} |-> <<>>]

\* { ...m, [k]: v }
Put(m, k, v) == [x \in (DOMAIN m) \cup {k} |-> IF x = k THEN v ELSE m[x]]

(***************************************************************************)
(* JS numbers that arise from counts: exact fractions, NaN and Infinity    *)
(***************************************************************************)
RECURSIVE GCD(_, _)
GCD(a, b) == IF b = 0 THEN a ELSE GCD(b, a % b)

NaN == [num |-> 0, den |-> 0]

Infinity == [num |-> 1, den |-> 0]

Num(n) == [num |-> n, den |-> 1]

\* a / b for non-negative integer counts
JsDiv(a, b) ==
    IF b = 0 THEN (IF a = 0 THEN NaN ELSE Infinity)
    ELSE LET g == GCD(a, b) IN [num |-> a \div g, den |-> b \div g]

\* x * 100
JsTimes100(x) ==
    IF x.den = 0 THEN x
    ELSE LET g == GCD(x.num * 100, x.den)
         IN [num |-> (x.num * 100) \div g, den |-> x.den \div g]

IsFinite(x) == x.den /= 0

\* x <= n and x >= n for a finite x and an integer n
LeqInt(x, n) == x.num <= n * x.den

GeqInt(x, n) == x.num >= n * x.den

(***************************************************************************)
(* State                                                                   *)
(***************************************************************************)
VARIABLES
    \* company store (stores/company.ts)
    currentCompany,
    questions,
    answers,
    currentQuestionIndex,
    isSubmitted,
    completedQuestions,
    \* localStorage entry 'company-store' written by the persist middleware
    companyStorage,
    \* questionnaire page (app/company/questionnaire/page.tsx): "closed",
    \* "loading" (spinner) or "ready" (form rendered), and the number of
    \* loadQuestions calls of earlier visits that are still in flight
    cq_page,
    cq_stale,
    \* auditor store (stores/auditor.ts)
    companies,
    selectedCompany,
    aud_questions,
    provisions,
    aud_answers,
    evaluations,
    provisionEvaluations,
    currentProvisionId,
    \* local storage: answers_<companyId> and evaluations_<companyId>
    ls_answers,
    ls_evaluations,
    \* evaluation page (CompanyEvaluation): route parameter, local state and
    \* the loadCompanyData calls in flight, oldest first
    ce_companyId,
    ce_loading,
    ce_error,
    ce_loads,
    \* auditor dashboard (AuditorDashboard): "closed", "loading" (spinner) or
    \* "ready", its error, and the number of loadCompanies calls of earlier
    \* visits that are still in flight
    ad_page,
    ad_error,
    ad_stale,
    \* the last organizationsApi.getAll call: its options, whether the
    \* backend request failed, and the list it resolved to
    org_options,
    org_failed,
    org_result,
    \* the backend's organizations (in creation order), local storage's
    \* "companies" entry, the clock that Date.now() reads, and the last call
    \* of the API layer with its outcome
    be_organizations,
    ls_companies,
    clock,
    api_call

companyVars == <<currentCompany, questions, answers, currentQuestionIndex,
                 isSubmitted, completedQuestions, companyStorage>>

cqVars == <<cq_page, cq_stale>>

auditorVars == <<companies, selectedCompany, aud_questions, provisions, aud_answers,
                 evaluations, provisionEvaluations, currentProvisionId>>

lsVars == <<ls_answers, ls_evaluations>>

ceVars == <<ce_companyId, ce_loading, ce_error, ce_loads>>

adVars == <<ad_page, ad_error, ad_stale>>

orgVars == <<org_options, org_failed, org_result>>

apiVars == <<be_organizations, ls_companies, clock, api_call>>

vars == <<companyVars, cqVars, auditorVars, lsVars, ceVars, adVars, orgVars,
          apiVars>>

(***************************************************************************)
(* Company store                                                           *)
(***************************************************************************)
RECURSIVE SetToArray(_)
\* Array.from(set): the members of the set as a list
SetToArray(S) ==
    IF S = {} THEN <<>>
    ELSE LET x == CHOOSE y \in S : TRUE
         IN <<x>> \o SetToArray(S \ {x})

\* new Set(array)
ArrayToSet(a) == {a[i] : i \in DOMAIN a}

\* partialize: the part of the state written to storage
partialize(cc, ans, sub, done) ==
    [currentCompany |-> cc, answers |-> ans, isSubmitted |-> sub,
     completedQuestions |-> SetToArray(done)]

CompanyInit ==
    /\ currentCompany = Null
    /\ questions = <<>>
    /\ answers = EmptyMap
    /\ currentQuestionIndex = 0
    /\ isSubmitted = FALSE
    /\ completedQuestions = {}
    /\ companyStorage = partialize(Null, EmptyMap, FALSE, {})

\* JSON.parse(JSON.stringify(snapshot)): strings, booleans, arrays and plain
\* objects come back as they were, each File as {}, and an undefined array
\* element as null
JSON_roundTrip(snapshot) ==
    [snapshot EXCEPT
        !.answers =
            [q \in DOMAIN snapshot.answers |->
                [answer |-> snapshot.answers[q].answer,
                 files |-> [i \in DOMAIN snapshot.answers[q].files |->
                              IF snapshot.answers[q].files[i] = File
                              THEN StoredFile
                              ELSE snapshot.answers[q].files[i]]]],
        !.completedQuestions =
            [i \in DOMAIN snapshot.completedQuestions |->
                IF snapshot.completedQuestions[i] = Undef
                THEN Null
                ELSE snapshot.completedQuestions[i]]]

\* every set() of the store is followed by the middleware's write of the
\* stringified snapshot
Persisted ==
    companyStorage' =
        JSON_roundTrip(partialize(currentCompany', answers', isSubmitted',
                                  completedQuestions'))

setCurrentCompany(company) ==
    /\ currentCompany' = company
    /\ UNCHANGED <<questions, answers, currentQuestionIndex, isSubmitted,
                   completedQuestions>>
    /\ Persisted

setQuestions(qs) ==
    /\ questions' = qs
    /\ currentQuestionIndex' = 0
    /\ UNCHANGED <<currentCompany, answers, isSubmitted, completedQuestions>>
    /\ Persisted

\* setAnswer without the un-marking branch
setAnswer_keepsMark(questionId, answer, files) ==
    /\ answers' = Put(answers, questionId, [answer |-> answer, files |-> files])
    /\ completedQuestions' =
          IF Truthy(Trim(answer))
          THEN completedQuestions \cup {questionId}
          ELSE completedQuestions
    /\ UNCHANGED <<currentCompany, questions, currentQuestionIndex,
                   isSubmitted>>
    /\ Persisted

\* setAnswer that writes a fresh answers object holding the new entry only
setAnswer_dropsOthers(questionId, answer, files) ==
    /\ answers' = Put(EmptyMap, questionId, [answer |-> answer, files |-> files])
    /\ completedQuestions' =
          IF Truthy(Trim(answer))
          THEN completedQuestions \cup {questionId}
          ELSE completedQuestions \ {questionId}
    /\ UNCHANGED <<currentCompany, questions, currentQuestionIndex,
                   isSubmitted>>
    /\ Persisted

setAnswer(questionId, answer, files) ==
    /\ answers' = Put(answers, questionId, [answer |-> answer, files |-> files])
    /\ completedQuestions' =
          IF Truthy(Trim(answer))
          THEN completedQuestions \cup {questionId}
          ELSE completedQuestions \ {questionId}
    /\ UNCHANGED <<currentCompany, questions, currentQuestionIndex,
                   isSubmitted>>
    /\ Persisted

setCurrentQuestionIndex(index) ==
    /\ currentQuestionIndex' = index
    /\ UNCHANGED <<currentCompany, questions, answers, isSubmitted,
                   completedQuestions>>
    /\ Persisted

markQuestionCompleted(questionId) ==
    /\ completedQuestions' = completedQuestions \cup {questionId}
    /\ UNCHANGED <<currentCompany, questions, answers, currentQuestionIndex,
                   isSubmitted>>
    /\ Persisted

submitAnswers ==
    /\ isSubmitted' = TRUE
    /\ UNCHANGED <<currentCompany, questions, answers, currentQuestionIndex,
                   completedQuestions>>
    /\ Persisted

resetQuestionnaire ==
    /\ answers' = EmptyMap
    /\ currentQuestionIndex' = 0
    /\ isSubmitted' = FALSE
    /\ completedQuestions' = {}
    /\ UNCHANGED <<currentCompany, questions>>
    /\ Persisted

\* a restart that does not carry the submitted flag over
rehydrate_dropsSubmitted ==
    /\ questions' = <<>>
    /\ currentQuestionIndex' = 0
    /\ currentCompany' = companyStorage.currentCompany
    /\ answers' = companyStorage.answers
    /\ isSubmitted' = FALSE
    /\ completedQuestions' = ArrayToSet(companyStorage.completedQuestions)
    /\ Persisted

\* a restart: the store is created with its initial state and the persisted
\* snapshot is merged over it; onRehydrateStorage turns the array into a Set
rehydrate ==
    /\ questions' = <<>>
    /\ currentQuestionIndex' = 0
    /\ currentCompany' = companyStorage.currentCompany
    /\ answers' = companyStorage.answers
    /\ isSubmitted' = companyStorage.isSubmitted
    /\ completedQuestions' = ArrayToSet(companyStorage.completedQuestions)
    /\ Persisted

getProgress ==
    IF Len(questions) = 0 THEN Num(0)
    ELSE JsTimes100(JsDiv(Cardinality(completedQuestions), Len(questions)))

\* the value getCurrentQuestion returns when no question is at the cursor
NoQuestion == [id |-> Null, _id |-> Null]

getCurrentQuestion ==
    IF currentQuestionIndex \in 0..(Len(questions) - 1)
    THEN questions[currentQuestionIndex + 1]
    ELSE NoQuestion

isQuestionCompleted(questionId) == questionId \in completedQuestions

canSubmit ==
    /\ Len(questions) > 0
    /\ Cardinality(completedQuestions) = Len(questions)

(***************************************************************************)
(* Auditor store                                                           *)
(***************************************************************************)
\* the static sample provisions, by id
MOCK_PROVISIONS == <<"A.8.4(a)", "A.8.4(b)">>

ProvisionIds == {MOCK_PROVISIONS[i] : i \in DOMAIN MOCK_PROVISIONS}

\* an Answer of company c to question q
Answer(c, q) ==
    [questionId |-> q, answer |-> <<" ", "a">>, companyId |-> c,
     timestamp |-> 0]

\* an Evaluation of question q with result r
Evaluation(q, r) == [questionId |-> q, answer |-> <<" ", "a">>, result |-> r]

EvaluationResults == {"pass", "fail", "pending"}

\* a ProvisionEvaluation of provision p with overall result r
ProvisionEvaluation(p, r) == [provisionId |-> p, overallResult |-> r]

ProvisionResults == {"pass", "fail", "partial"}

AuditorInit ==
    /\ companies = <<>>
    /\ selectedCompany = Null
    /\ aud_questions = <<>>
    /\ provisions = <<>>
    /\ aud_answers = <<>>
    /\ evaluations = EmptyMap
    /\ provisionEvaluations = EmptyMap
    /\ currentProvisionId = Null

\* setSelectedCompany that keeps the provision-level judgments
setSelectedCompany_keepsProvisionEvaluations(company) ==
    /\ selectedCompany' = company
    /\ evaluations' = EmptyMap
    /\ currentProvisionId' = Null
    /\ UNCHANGED <<companies, aud_questions, provisions, aud_answers,
                   provisionEvaluations>>

setSelectedCompany(company) ==
    /\ selectedCompany' = company
    /\ evaluations' = EmptyMap
    /\ provisionEvaluations' = EmptyMap
    /\ currentProvisionId' = Null
    /\ UNCHANGED <<companies, aud_questions, provisions, aud_answers>>

\* companies are held by their ids
setCompanies(cs) ==
    /\ companies' = cs
    /\ UNCHANGED <<selectedCompany, aud_questions, provisions, aud_answers,
                   evaluations, provisionEvaluations, currentProvisionId>>

aud_setQuestions(qs) ==
    /\ aud_questions' = qs
    /\ UNCHANGED <<companies, selectedCompany, provisions, aud_answers, evaluations,
                   provisionEvaluations, currentProvisionId>>

setProvisions(ps) ==
    /\ provisions' = ps
    /\ UNCHANGED <<companies, selectedCompany, aud_questions, aud_answers, evaluations,
                   provisionEvaluations, currentProvisionId>>

setAnswers(as) ==
    /\ aud_answers' = as
    /\ UNCHANGED <<companies, selectedCompany, aud_questions, provisions, evaluations,
                   provisionEvaluations, currentProvisionId>>

setCurrentProvisionId(provisionId) ==
    /\ currentProvisionId' = provisionId
    /\ UNCHANGED <<companies, selectedCompany, aud_questions, provisions, aud_answers,
                   evaluations, provisionEvaluations>>

\* setEvaluation that writes a fresh evaluations object holding the new entry
\* only
setEvaluation_dropsOthers(questionId, evaluation) ==
    /\ evaluations' = Put(EmptyMap, questionId, evaluation)
    /\ UNCHANGED <<companies, selectedCompany, aud_questions, provisions, aud_answers,
                   provisionEvaluations, currentProvisionId>>

setEvaluation(questionId, evaluation) ==
    /\ evaluations' = Put(evaluations, questionId, evaluation)
    /\ UNCHANGED <<companies, selectedCompany, aud_questions, provisions, aud_answers,
                   provisionEvaluations, currentProvisionId>>

setProvisionEvaluation(provisionId, evaluation) ==
    /\ provisionEvaluations' =
          Put(provisionEvaluations, provisionId, evaluation)
    /\ UNCHANGED <<companies, selectedCompany, aud_questions, provisions, aud_answers,
                   evaluations, currentProvisionId>>

clearEvaluations ==
    /\ evaluations' = EmptyMap
    /\ provisionEvaluations' = EmptyMap
    /\ currentProvisionId' = Null
    /\ UNCHANGED <<companies, selectedCompany, aud_questions, provisions, aud_answers>>

\* the value the getters return for an id without a judgment
NoEvaluation == [questionId |-> Null, answer |-> <<>>, result |-> Null]

NoProvisionEvaluation == [provisionId |-> Null, overallResult |-> Null]

getEvaluationForQuestion(questionId) ==
    IF questionId \in DOMAIN evaluations
    THEN evaluations[questionId]
    ELSE NoEvaluation

\* Object.values(m), in one order of the keys
ObjectValues(m) ==
    LET keys == SetToArray(DOMAIN m) IN [i \in DOMAIN keys |-> m[keys[i]]]

\* the value getComplianceReport returns for null
NoReport == [companyId |-> Null]

\* getComplianceReport that counts a partial result as passed
getComplianceReport_countsPartial(companyId) ==
    IF companyId \notin ArrayToSet(companies) \/ selectedCompany = Null
    THEN NoReport
    ELSE LET values == ObjectValues(provisionEvaluations)
             totalProvisions == Len(values)
             passedProvisions ==
                 Cardinality({i \in DOMAIN values :
                                 values[i].overallResult /= "fail"})
         IN [companyId |-> companyId,
             company |-> companyId,
             provisions |-> values,
             overallScore |->
                 IF totalProvisions > 0
                 THEN JsTimes100(JsDiv(passedProvisions, totalProvisions))
                 ELSE Num(0),
             totalProvisions |-> totalProvisions,
             passedProvisions |-> passedProvisions,
             generatedBy |-> "Current Auditor"]

\* companies.find(c => c.id === companyId) is the company of that id, or
\* undefined
getComplianceReport(companyId) ==
    IF companyId \notin ArrayToSet(companies) \/ selectedCompany = Null
    THEN NoReport
    ELSE LET values == ObjectValues(provisionEvaluations)
             totalProvisions == Len(values)
             passedProvisions ==
                 Cardinality({i \in DOMAIN values :
                                 values[i].overallResult = "pass"})
         IN [companyId |-> companyId,
             company |-> companyId,
             provisions |-> values,
             overallScore |->
                 IF totalProvisions > 0
                 THEN JsTimes100(JsDiv(passedProvisions, totalProvisions))
                 ELSE Num(0),
             totalProvisions |-> totalProvisions,
             passedProvisions |-> passedProvisions,
             generatedBy |-> "Current Auditor"]

\* report?.overallScore || 0
getOverallComplianceScore(companyId) ==
    LET report == getComplianceReport(companyId)
    IN IF report = NoReport THEN Num(0) ELSE report.overallScore

getProvisionEvaluation(provisionId) ==
    IF provisionId \in DOMAIN provisionEvaluations
    THEN provisionEvaluations[provisionId]
    ELSE NoProvisionEvaluation

(***************************************************************************)
(* Evaluation page: statistics                                             *)
(***************************************************************************)
\* Object.values(evaluations).filter(e => e.result === r).length
CountResult(r) ==
    Cardinality({k \in DOMAIN evaluations : evaluations[k].result = r})

\* getEvaluationStats with the pass percentage taken over all questions
getEvaluationStats_overTotal ==
    LET totalQuestions == Len(aud_questions)
        evaluatedQuestions == Cardinality(DOMAIN evaluations)
        passedQuestions == CountResult("pass")
        failedQuestions == CountResult("fail")
    IN [total |-> totalQuestions,
        evaluated |-> evaluatedQuestions,
        passed |-> passedQuestions,
        failed |-> failedQuestions,
        pending |-> totalQuestions - evaluatedQuestions,
        completionPercentage |->
            IF totalQuestions > 0
            THEN JsTimes100(JsDiv(evaluatedQuestions, totalQuestions))
            ELSE Num(0),
        passPercentage |->
            IF evaluatedQuestions > 0
            THEN JsTimes100(JsDiv(passedQuestions, totalQuestions))
            ELSE Num(0)]

getEvaluationStats ==
    LET totalQuestions == Len(aud_questions)
        evaluatedQuestions == Cardinality(DOMAIN evaluations)
        passedQuestions == CountResult("pass")
        failedQuestions == CountResult("fail")
    IN [total |-> totalQuestions,
        evaluated |-> evaluatedQuestions,
        passed |-> passedQuestions,
        failed |-> failedQuestions,
        pending |-> totalQuestions - evaluatedQuestions,
        completionPercentage |->
            IF totalQuestions > 0
            THEN JsTimes100(JsDiv(evaluatedQuestions, totalQuestions))
            ELSE Num(0),
        passPercentage |->
            IF evaluatedQuestions > 0
            THEN JsTimes100(JsDiv(passedQuestions, evaluatedQuestions))
            ELSE Num(0)]

(***************************************************************************)
(* API layer: pagination helper and the question fetch                     *)
(***************************************************************************)
Min(a, b) == IF a < b THEN a ELSE b

Max(a, b) == IF a > b THEN a ELSE b

\* Array.prototype.slice(start, end) on a list of length Len(a)
Slice(a, start, end) ==
    LET n == Len(a)
        from == IF start < 0 THEN Max(n + start, 0) ELSE Min(start, n)
        to == IF end < 0 THEN Max(n + end, 0) ELSE Min(end, n)
    IN IF from >= to THEN <<>> ELSE SubSeq(a, from + 1, to)

\* options objects are maps holding the fields that were supplied
NoOptions == EmptyMap

\* options?.f as a condition: the field is present and not 0
OptTruthy(options, f) == f \in DOMAIN options /\ options[f] /= 0

applyPagination(items, options) ==
    LET afterOffset ==
            IF OptTruthy(options, "offset") /\ options["offset"] < Len(items)
            THEN Slice(items, options["offset"], Len(items))
            ELSE items
    IN IF OptTruthy(options, "limit")
       THEN Slice(afterOffset, 0, options["limit"])
       ELSE afterOffset

\* the static sample questions: they carry id and no _id
MOCK_QUESTIONS ==
    [k \in 1..NumQuestionIds |-> Question(QIdNames[k], Undef)]

\* a settled promise: resolved with a value, or rejected with an error
Resolved(v) == [status |-> "resolved", value |-> v, message |-> ""]

Rejected(m) == [status |-> "rejected", value |-> Null, message |-> m]

\* no call of the API layer made yet
NoCall == [op |-> "none"]

\* await api.get(url): the response body when the backend serves the
\* request, otherwise the request rejects (network error or error status)
api_get(served, body) ==
    IF served THEN Resolved(body) ELSE Rejected("Request failed")

\* the responses GET /questions can give
QuestionsResponses ==
    {api_get(TRUE, body) : body \in BackendQuestionLists}
        \cup {api_get(FALSE, <<>>)}

\* questionsApi.getAll without its catch block
questionsApi_getAllFrom_uncaught(options, response) == response

\* questionsApi.getAll(options) given the response: response.data, or in
\* the catch block the paginated samples
questionsApi_getAllFrom(options, response) ==
    IF response.status = "resolved"
    THEN Resolved(response.value)
    ELSE Resolved(applyPagination(MOCK_QUESTIONS, options))

\* what questionsApi.getAll(options) can resolve to
questionsApi_getAll(options) ==
    {questionsApi_getAllFrom(options, response).value :
        response \in QuestionsResponses}

(***************************************************************************)
(* Questionnaire page                                                      *)
(***************************************************************************)
\* the effect that runs on a visit: redirect without a company or after
\* submission, otherwise loadQuestions starts (setLoading(true), request sent)
cq_visit ==
    /\ cq_page = "closed"
    /\ currentCompany /= Null
    /\ ~isSubmitted
    /\ cq_page' = "loading"
    /\ UNCHANGED <<companyVars, cq_stale>>

\* loadQuestions after the await: setQuestions(fetched), setLoading(false)
loadQuestions ==
    /\ cq_page = "loading"
    /\ \E fetched \in questionsApi_getAll(NoOptions) : setQuestions(fetched)
    /\ cq_page' = "ready"
    /\ UNCHANGED cq_stale

\* the user leaves the page; a request still in flight is not cancelled
cq_leave ==
    /\ cq_page /= "closed"
    /\ cq_page' = "closed"
    /\ cq_stale' = IF cq_page = "loading" THEN cq_stale + 1 ELSE cq_stale
    /\ cq_stale' <= MaxStaleLoads
    /\ UNCHANGED companyVars

\* a loadQuestions of an earlier visit resolves: setQuestions on the store
loadQuestionsStale ==
    /\ cq_stale > 0
    /\ \E fetched \in questionsApi_getAll(NoOptions) : setQuestions(fetched)
    /\ cq_stale' = cq_stale - 1
    /\ UNCHANGED cq_page

\* the form is rendered: not loading and a current question exists
cq_rendered == cq_page = "ready" /\ getCurrentQuestion /= NoQuestion

handleAnswerChange(value) ==
    /\ cq_rendered
    /\ setAnswer(getCurrentQuestion._id, value, <<>>)
    /\ UNCHANGED cqVars

\* navigateToQuestion without the range check
navigateToQuestion_unguarded(index) ==
    /\ cq_rendered
    /\ setCurrentQuestionIndex(index)
    /\ UNCHANGED cqVars

navigateToQuestion(index) ==
    /\ cq_rendered
    /\ IF index >= 0 /\ index < Len(questions)
       THEN setCurrentQuestionIndex(index)
       ELSE UNCHANGED companyVars
    /\ UNCHANGED cqVars

\* handleSubmit without the canSubmit() check
handleSubmit_unguarded ==
    /\ cq_rendered
    /\ submitAnswers
    /\ cq_page' = "closed"
    /\ UNCHANGED cq_stale

handleSubmit ==
    /\ cq_rendered
    /\ IF ~canSubmit
       THEN UNCHANGED <<companyVars, cqVars>>
       ELSE /\ submitAnswers
            /\ cq_page' = "closed"
            /\ UNCHANGED cq_stale

\* registration page, onSubmit: the registered company becomes current
onSubmit ==
    /\ cq_page = "closed"
    /\ \E c \in CompanyIds : setCurrentCompany(c)
    /\ UNCHANGED cqVars

\* the browser reloads the app: the store is rehydrated, no page is open and
\* requests in flight are gone
reload ==
    /\ rehydrate
    /\ cq_page' = "closed"
    /\ cq_stale' = 0

(***************************************************************************)
(* Specification of the company store: its operations called in any order  *)
(***************************************************************************)
Init ==
    /\ CompanyInit
    /\ cq_page = "closed"
    /\ cq_stale = 0
    /\ AuditorInit
    /\ ls_answers = [c \in CompanyIds |-> <<>>]
    /\ ls_evaluations = [c \in CompanyIds |-> EmptyMap]
    /\ ce_companyId = Null
    /\ ce_loading = FALSE
    /\ ce_error = Null
    /\ ce_loads = <<>>
    /\ ad_page = "closed"
    /\ ad_error = Null
    /\ ad_stale = 0
    /\ org_options = NoOptions
    /\ org_failed = FALSE
    /\ org_result = <<>>
    /\ be_organizations = <<"c2">>
    /\ ls_companies = <<>>
    /\ clock = 0
    /\ api_call = NoCall

CompanyFrame ==
    UNCHANGED <<cqVars, auditorVars, lsVars, ceVars, adVars, orgVars, apiVars>>

Next ==
    \/ \E c \in CompanyIds \cup {Null} : setCurrentCompany(c) /\ CompanyFrame
    \/ \E qs \in BackendQuestionLists : setQuestions(qs) /\ CompanyFrame
    \/ \E q \in QIds, t \in Texts : setAnswer(q, t, <<>>) /\ CompanyFrame
    \/ \E i \in -1..Len(questions) :
          setCurrentQuestionIndex(i) /\ CompanyFrame
    \/ \E q \in QIds : markQuestionCompleted(q) /\ CompanyFrame
    \/ submitAnswers /\ CompanyFrame
    \/ resetQuestionnaire /\ CompanyFrame
    \/ rehydrate /\ CompanyFrame

Spec == Init /\ [][Next]_vars

(***************************************************************************)
(* Specification of the company store's persistence: its operations, file  *)
(* attachments included, and restarts                                      *)
(***************************************************************************)
PersistNext ==
    \/ \E c \in {"1", Null} : setCurrentCompany(c) /\ CompanyFrame
    \/ \E n \in 0..NumQuestionIds :
          setQuestions(QuestionPrefix(n)) /\ CompanyFrame
    \/ \E q \in QIds, t \in {<<>>, <<" ", "a">>} :
          setAnswer(q, t, <<>>) /\ CompanyFrame
    \/ \E q \in QIds : setAnswer(q, <<" ", "a">>, <<File>>) /\ CompanyFrame
    \/ \E i \in 0..Len(questions) : setCurrentQuestionIndex(i) /\ CompanyFrame
    \/ \E q \in QIds : markQuestionCompleted(q) /\ CompanyFrame
    \/ submitAnswers /\ CompanyFrame
    \/ resetQuestionnaire /\ CompanyFrame
    \/ rehydrate /\ CompanyFrame

SpecPersist == Init /\ [][PersistNext]_vars

(***************************************************************************)
(* Specification of the questionnaire flow: the store driven by the pages *)
(***************************************************************************)
PageFrame ==
    UNCHANGED <<auditorVars, lsVars, ceVars, adVars, orgVars, apiVars>>

PageNext ==
    \/ onSubmit /\ PageFrame
    \/ cq_visit /\ PageFrame
    \/ loadQuestions /\ PageFrame
    \/ cq_leave /\ PageFrame
    \/ loadQuestionsStale /\ PageFrame
    \/ \E t \in Texts : handleAnswerChange(t) /\ PageFrame
    \/ \E i \in -1..NumQuestionIds : navigateToQuestion(i) /\ PageFrame
    \/ handleSubmit /\ PageFrame
    \/ reload /\ PageFrame

SpecPage == Init /\ [][PageNext]_vars

(***************************************************************************)
(* Specification of the auditor store's evaluation state: the operations  *)
(* on the selected company, questions, answers and judgments in any order *)
(***************************************************************************)
\* answer lists handed to setAnswers: a company's answers to the first k
\* questions
AnswerLists ==
    {[i \in 1..k |-> Answer(c, QIdNames[i])] :
        c \in CompanyIds, k \in 0..NumQuestionIds}

\* setProvisions writes provisions only, which no other store operation
\* reads or writes; it is exercised by the evaluation page's specification
AuditorFrame ==
    UNCHANGED <<companyVars, cqVars, provisions, lsVars, ceVars, adVars,
                orgVars, apiVars>>

AuditorNext ==
    \/ \E c \in CompanyIds \cup {Null} : setSelectedCompany(c) /\ AuditorFrame
    \/ \E qs \in BackendQuestionLists : aud_setQuestions(qs) /\ AuditorFrame
    \/ \E as \in AnswerLists : setAnswers(as) /\ AuditorFrame
    \/ \E p \in ProvisionIds \cup {Null} :
          setCurrentProvisionId(p) /\ AuditorFrame
    \/ \E q \in QIds, r \in EvaluationResults :
          setEvaluation(q, Evaluation(q, r)) /\ AuditorFrame
    \/ \E p \in ProvisionIds, r \in ProvisionResults :
          setProvisionEvaluation(p, ProvisionEvaluation(p, r)) /\ AuditorFrame
    \/ clearEvaluations /\ AuditorFrame

SpecAuditor == Init /\ [][AuditorNext]_vars

(***************************************************************************)
(* Specification of the auditor's judging: the dashboard sets the company  *)
(* list, a company is selected, its answers are loaded and its questions   *)
(* and provisions are judged                                               *)
(***************************************************************************)
CompanyLists == SeqsNoDup(CompanyIds, Cardinality(CompanyIds))

ReportNext ==
    \/ \E cs \in CompanyLists : setCompanies(cs) /\ AuditorFrame
    \/ \E c \in CompanyIds \cup {Null} : setSelectedCompany(c) /\ AuditorFrame
    \/ \E as \in AnswerLists : setAnswers(as) /\ AuditorFrame
    \/ \E q \in QIds, r \in EvaluationResults :
          setEvaluation(q, Evaluation(q, r)) /\ AuditorFrame
    \/ \E p \in ProvisionIds, r \in ProvisionResults :
          setProvisionEvaluation(p, ProvisionEvaluation(p, r)) /\ AuditorFrame
    \/ clearEvaluations /\ AuditorFrame

SpecReport == Init /\ [][ReportNext]_vars

(***************************************************************************)
(* Properties of the company store                                         *)
(***************************************************************************)
Blank(t) == ~Truthy(Trim(t))

LoadedIds == {questions[i].id : i \in DOMAIN questions}

\* the loaded questions whose current answer text is non-blank
AnsweredLoaded ==
    {i \in DOMAIN questions :
        /\ questions[i].id \in DOMAIN answers
        /\ ~Blank(answers[questions[i].id].answer)}

AllLoadedAnswered ==
    /\ Len(questions) >= 1
    /\ Cardinality(AnsweredLoaded) = Len(questions)

\* the step is a setAnswer(q, t, files) for some files
SetAnswerStep(q, t) ==
    /\ UNCHANGED <<isSubmitted, currentQuestionIndex, questions>>
    /\ q \in DOMAIN answers'
    /\ answers'[q].answer = t
    /\ \E f \in FileLists : setAnswer(q, t, f)

\* C1: a setAnswer with non-blank text after which every question of the
\* loaded list (N >= 1) holds a non-blank answer leaves getProgress() = 100
\* and canSubmit() true, whatever operations preceded.
C1_AllAnsweredIsComplete ==
    [][\A q \in QIds, t \in Texts :
          (/\ ~Blank(t)
           /\ q \in LoadedIds
           /\ SetAnswerStep(q, t)
           /\ AllLoadedAnswered')
              => (getProgress' = Num(100) /\ canSubmit')]_vars

\* C2 as claimed: setAnswer(q, blank) removes q from completedQuestions and
\* turns a true canSubmit() false.
C2_BlankAlwaysRevokes ==
    [][\A q \in QIds, t \in Texts :
          (Blank(t) /\ SetAnswerStep(q, t))
              => /\ q \notin completedQuestions'
                 /\ canSubmit => ~canSubmit']_vars

\* C2 amended: setAnswer(q, blank) removes q from completedQuestions, and
\* turns a true canSubmit() false when q was marked completed before the call.
C2_BlankRevokesCompleted ==
    [][\A q \in QIds, t \in Texts :
          (Blank(t) /\ SetAnswerStep(q, t))
              => /\ q \notin completedQuestions'
                 /\ (canSubmit /\ q \in completedQuestions) => ~canSubmit']_vars

\* a loaded question holds a blank answer, is not marked completed and
\* submission is not possible although every other question is completed
C2_Witness ==
    \E i \in DOMAIN questions :
        /\ questions[i].id \in DOMAIN answers
        /\ Blank(answers[questions[i].id].answer)
        /\ questions[i].id \notin completedQuestions
        /\ Cardinality(completedQuestions) = Len(questions) - 1
        /\ ~canSubmit

\* C3: getProgress() is 100 x (loaded questions with a non-blank answer) /
\* (loaded questions), and 0 when no questions are loaded.
C3_ProgressCountsAnswered ==
    getProgress =
        IF Len(questions) = 0 THEN Num(0)
        ELSE JsTimes100(JsDiv(Cardinality(AnsweredLoaded), Len(questions)))

\* C5 as claimed: no operation sets isSubmitted back to false.
C5_SubmittedForever == [][isSubmitted => isSubmitted']_vars

\* C5 amended: isSubmitted stays true through every operation other than
\* resetQuestionnaire.
C5_SubmittedUntilReset ==
    [][(isSubmitted /\ ~resetQuestionnaire) => isSubmitted']_vars

\* submitted, and later operations have loaded questions and changed answers
C5_Witness ==
    /\ isSubmitted
    /\ Len(questions) > 0
    /\ answers /= EmptyMap
    /\ ~canSubmit

(***************************************************************************)
(* Properties of the questionnaire flow                                    *)
(***************************************************************************)
\* C4: isSubmitted turns from false to true only in a state where questions
\* are loaded and the completed count equals their number (canSubmit()).
C4_SubmissionGated ==
    [][(~isSubmitted /\ isSubmitted')
          => (Len(questions) > 0
              /\ Cardinality(completedQuestions) = Len(questions))]_vars

\* a submitted questionnaire of a loaded, fully completed question list
C4_Witness ==
    /\ isSubmitted
    /\ cq_page = "closed"
    /\ Len(questions) > 0
    /\ Cardinality(completedQuestions) = Len(questions)

\* C6: navigating to an index outside 0..Len(questions)-1 changes nothing;
\* a valid index becomes the cursor and nothing else changes.
C6_NavigateGuarded ==
    [][\A i \in -1..NumQuestionIds :
          navigateToQuestion(i)
              => IF i \in 0..(Len(questions) - 1)
                 THEN /\ currentQuestionIndex' = i
                      /\ UNCHANGED <<currentCompany, questions, answers,
                                     isSubmitted, completedQuestions, cqVars>>
                 ELSE UNCHANGED vars]_vars

\* the cursor was moved off the first question of a rendered questionnaire
C6_Witness ==
    /\ cq_page = "ready"
    /\ currentQuestionIndex > 0
    /\ getCurrentQuestion /= NoQuestion

(***************************************************************************)
(* Organizations, provisions and answers API                               *)
(***************************************************************************)
\* the static sample organizations, by id
MOCK_ORGANIZATIONS == <<"1", "2", "3", "4", "5">>

MockOrganizationIds == {MOCK_ORGANIZATIONS[i] : i \in DOMAIN MOCK_ORGANIZATIONS}

\* organizationsApi.getById(id): GET /organizations/{id} is served when
\* the backend is reachable and holds the id; otherwise the sample with that
\* id, or a rejection when no sample has it
organizationsApi_getById(id, reachable) ==
    LET response ==
            api_get(reachable /\ id \in ArrayToSet(be_organizations), id)
    IN IF response.status = "resolved"
       THEN Resolved(response.value)
       ELSE IF id \in MockOrganizationIds
            THEN Resolved(id)
            ELSE Rejected("Organization not found")

\* companiesApi.getById(id): the organization as a company (same id); when
\* organizationsApi.getById rejects, the entry of local storage's
\* "companies" with that id, or null
companiesApi_getById(id, reachable) ==
    LET organization == organizationsApi_getById(id, reachable)
    IN IF organization.status = "resolved"
       THEN Resolved(organization.value)
       ELSE Resolved(IF id \in ArrayToSet(ls_companies) THEN id ELSE Null)

\* questionsApi.getById(id): the backend's question when the request is
\* served, otherwise the sample with that id or a rejection
questionsApi_getById(id, served) ==
    LET response == api_get(served, id)
    IN IF response.status = "resolved"
       THEN Resolved(response.value)
       ELSE IF \E k \in DOMAIN MOCK_QUESTIONS : MOCK_QUESTIONS[k].id = id
            THEN Resolved(id)
            ELSE Rejected("Question not found")

\* provisionsApi.getById resolving to null where it should throw
provisionsApi_getById_noThrow(id, served) ==
    LET response == api_get(served, id)
    IN IF response.status = "resolved"
       THEN Resolved(response.value)
       ELSE IF \E k \in DOMAIN MOCK_PROVISIONS : MOCK_PROVISIONS[k] = id
            THEN Resolved(id)
            ELSE Resolved(Null)

\* provisionsApi.getById(id): likewise over the sample provisions
provisionsApi_getById(id, served) ==
    LET response == api_get(served, id)
    IN IF response.status = "resolved"
       THEN Resolved(response.value)
       ELSE IF \E k \in DOMAIN MOCK_PROVISIONS : MOCK_PROVISIONS[k] = id
            THEN Resolved(id)
            ELSE Rejected("Provision not found")

\* the responses GET /provisions can give; the backend serves the
\* provisions the samples copy
ProvisionsResponses == {api_get(TRUE, MOCK_PROVISIONS), api_get(FALSE, <<>>)}

\* provisionsApi.getAll() given the response
provisionsApi_getAllFrom(response) ==
    IF response.status = "resolved"
    THEN Resolved(response.value)
    ELSE Resolved(MOCK_PROVISIONS)

\* what provisionsApi.getAll() can resolve to
provisionsApi_getAll ==
    {provisionsApi_getAllFrom(response).value :
        response \in ProvisionsResponses}

\* organizationsApi.getAll(options) given the response
organizationsApi_getAllFrom(options, response) ==
    IF response.status = "resolved"
    THEN Resolved(response.value)
    ELSE Resolved(applyPagination(MOCK_ORGANIZATIONS, options))

\* companiesApi.getAll(): organizationsApi.getAll() mapped to companies;
\* the "companies" entry of local storage if that call rejects
companiesApi_getAll(reachable) ==
    LET organizations ==
            organizationsApi_getAllFrom(NoOptions,
                api_get(reachable, be_organizations))
    IN IF organizations.status = "resolved"
       THEN Resolved(organizations.value)
       ELSE Resolved(ls_companies)

\* answersApi.submit(companyId, answers): stamps the answers with the company
\* and stores them under answers_<companyId>
\* the stored lists after an answersApi.submit that adds the answers to the
\* list already stored
answersApi_submitStored_appends(companyId, answersData) ==
    [ls_answers EXCEPT ![companyId] =
        @ \o [i \in DOMAIN answersData |->
                [questionId |-> answersData[i].questionId,
                 answer |-> answersData[i].answer,
                 companyId |-> companyId,
                 timestamp |-> clock]]]

\* the stored lists after the call: each answer is spread, then tagged with
\* companyId and the time of the call; the list replaces the entry
\* answers_<companyId>
answersApi_submitStored(companyId, answersData) ==
    [ls_answers EXCEPT ![companyId] =
        [i \in DOMAIN answersData |->
            [questionId |-> answersData[i].questionId,
             answer |-> answersData[i].answer,
             companyId |-> companyId,
             timestamp |-> clock]]]

answersApi_submit(companyId, answersData) ==
    /\ ls_answers' = answersApi_submitStored(companyId, answersData)
    /\ UNCHANGED ls_evaluations

\* the list parsed from the entry answers_<companyId> of the given storage
answersApi_getByCompanyIdOf(storage, companyId) == storage[companyId]

answersApi_getByCompanyId(companyId) ==
    answersApi_getByCompanyIdOf(ls_answers, companyId)

(***************************************************************************)
(* Evaluation page                                                         *)
(***************************************************************************)
\* bound on the loadCompanyData calls in flight at once
MaxLoads == 2

RemoveAt(seq, i) ==
    [k \in 1..(Len(seq) - 1) |-> IF k < i THEN seq[k] ELSE seq[k + 1]]

\* the load started by the mounted page instance: that instance shows the
\* spinner from its mount until its own load ends, and a later visit mounts a
\* new instance, so it is the newest load while the spinner shows
ce_live(i) == ce_companyId /= Null /\ ce_loading /\ i = Len(ce_loads)

\* the page is opened for a company: a fresh instance (loading = true,
\* error = null) whose effect starts loadCompanyData up to its first await
ce_visit(companyId) ==
    /\ Len(ce_loads) < MaxLoads
    /\ ce_companyId' = companyId
    /\ ce_loading' = TRUE
    /\ ce_error' = Null
    /\ ce_loads' = Append(ce_loads,
          [companyId |-> companyId, pc |-> "getById", answersData |-> <<>>])
    /\ UNCHANGED <<auditorVars, lsVars>>

\* the page is left; loads in flight are not cancelled
ce_leave ==
    /\ ce_companyId /= Null
    /\ ce_companyId' = Null
    /\ ce_loading' = FALSE
    /\ ce_error' = Null
    /\ UNCHANGED <<ce_loads, auditorVars, lsVars>>

\* loadCompanyData whose not-found exit skips setLoading(false)
loadCompanyData_company_noFinally(i) ==
    /\ i \in DOMAIN ce_loads
    /\ ce_loads[i].pc = "getById"
    /\ \E company \in
            {companiesApi_getById(ce_loads[i].companyId, reachable).value :
                reachable \in BOOLEAN} :
          IF company = Null
          THEN /\ ce_error' = IF ce_live(i) THEN "Company not found"
                              ELSE ce_error
               /\ ce_loads' = RemoveAt(ce_loads, i)
               /\ UNCHANGED <<ce_loading, auditorVars>>
          ELSE /\ setSelectedCompany(company)
               /\ ce_loads' =
                     [ce_loads EXCEPT ![i] =
                        [companyId |-> ce_loads[i].companyId,
                         pc |-> "all",
                         answersData |->
                            answersApi_getByCompanyId(ce_loads[i].companyId)]]
               /\ UNCHANGED <<ce_error, ce_loading>>
    /\ UNCHANGED <<ce_companyId, lsVars>>

\* loadCompanyData from the first await to the second: the company arrives;
\* null ends the load with an error, otherwise setSelectedCompany and the
\* three requests are sent (answersApi.getByCompanyId reads local storage now)
loadCompanyData_company(i) ==
    /\ i \in DOMAIN ce_loads
    /\ ce_loads[i].pc = "getById"
    /\ \E company \in
            {companiesApi_getById(ce_loads[i].companyId, reachable).value :
                reachable \in BOOLEAN} :
          IF company = Null
          THEN /\ ce_error' = IF ce_live(i) THEN "Company not found"
                              ELSE ce_error
               /\ ce_loading' = IF ce_live(i) THEN FALSE ELSE ce_loading
               /\ ce_loads' = RemoveAt(ce_loads, i)
               /\ UNCHANGED auditorVars
          ELSE /\ setSelectedCompany(company)
               /\ ce_loads' =
                     [ce_loads EXCEPT ![i] =
                        [companyId |-> ce_loads[i].companyId,
                         pc |-> "all",
                         answersData |->
                            answersApi_getByCompanyId(ce_loads[i].companyId)]]
               /\ UNCHANGED <<ce_error, ce_loading>>
    /\ UNCHANGED <<ce_companyId, lsVars>>

\* loadCompanyData after the second await: setQuestions, setProvisions,
\* setAnswers, then setLoading(false)
loadCompanyData_all(i) ==
    /\ i \in DOMAIN ce_loads
    /\ ce_loads[i].pc = "all"
    /\ \E questionsData \in questionsApi_getAll(NoOptions),
          provisionsData \in provisionsApi_getAll :
          /\ aud_questions' = questionsData
          /\ provisions' = provisionsData
    /\ aud_answers' = ce_loads[i].answersData
    /\ ce_loading' = IF ce_live(i) THEN FALSE ELSE ce_loading
    /\ ce_loads' = RemoveAt(ce_loads, i)
    /\ UNCHANGED <<companies, selectedCompany, evaluations, provisionEvaluations,
                   currentProvisionId, ce_companyId, ce_error, lsVars>>

\* the page shows the evaluation view rather than the spinner or the error
ce_rendered ==
    /\ ce_companyId /= Null
    /\ ~ce_loading
    /\ ce_error = Null
    /\ selectedCompany /= Null

\* answers.find(a => a.questionId === questionId), as the set of matches'
\* first index (empty when none); an undefined questionId matches no answer
FindAnswer(questionId) ==
    LET hits == {k \in DOMAIN aud_answers :
                    /\ questionId /= Undef
                    /\ aud_answers[k].questionId = questionId}
    IN IF hits = {} THEN {}
       ELSE {CHOOSE k \in hits : \A j \in hits : k <= j}

\* handleEvaluation(questionId, result), called from a question card of the
\* rendered list with that question's _id: nothing without the question or
\* its answer, otherwise setEvaluation and the save under
\* evaluations_<companyId>
handleEvaluation(questionId, result) ==
    /\ ce_rendered
    /\ \E k \in DOMAIN aud_questions : aud_questions[k]._id = questionId
    /\ IF FindAnswer(questionId) = {}
       THEN UNCHANGED <<auditorVars, ls_evaluations>>
       ELSE LET answer == aud_answers[CHOOSE k \in FindAnswer(questionId) : TRUE]
                evaluation == [questionId |-> questionId,
                               answer |-> answer.answer,
                               result |-> result]
            IN /\ setEvaluation(questionId, evaluation)
               /\ ls_evaluations' =
                     [ls_evaluations EXCEPT ![ce_companyId] =
                         Put(@, questionId, evaluation)]
    /\ UNCHANGED <<ls_answers, ceVars>>

(***************************************************************************)
(* Specification of the evaluation page: companies submit answers, the    *)
(* auditor opens and leaves the page and records results                   *)
(***************************************************************************)
EvalFrame == UNCHANGED <<companyVars, cqVars, adVars, orgVars, apiVars>>

EvalNext ==
    \/ \E c \in CompanyIds :
          /\ answersApi_submit(c,
                [i \in 1..NumQuestionIds |->
                    [questionId |-> QIdNames[i], answer |-> <<" ", "a">>]])
          /\ UNCHANGED <<auditorVars, ceVars>>
          /\ EvalFrame
    \/ \E c \in CompanyIds : ce_visit(c) /\ EvalFrame
    \/ ce_leave /\ EvalFrame
    \/ \E i \in 1..MaxLoads : loadCompanyData_company(i) /\ EvalFrame
    \/ \E i \in 1..MaxLoads : loadCompanyData_all(i) /\ EvalFrame
    \/ \E q \in Keys, r \in {"pass", "fail"} :
          handleEvaluation(q, r) /\ EvalFrame

SpecEval == Init /\ [][EvalNext]_vars

(***************************************************************************)
(* Specification of the answers API: companies submit answer lists         *)
(***************************************************************************)
\* the answer lists a company submits: distinct questions in any order, blank
\* or non-blank texts
SubmittedAnswerLists ==
    UNION {[1..Len(ids) -> {<<" ">>, <<" ", "a">>}] \X {ids} :
              ids \in SeqsNoDup(QIds, NumQuestionIds)}

AnswersOf(pair) ==
    [i \in DOMAIN pair[2] |-> [questionId |-> pair[2][i], answer |-> pair[1][i]]]

AnswersFrame ==
    UNCHANGED <<companyVars, cqVars, auditorVars, ceVars, adVars, orgVars,
                apiVars>>

AnswersNext ==
    \/ \E c \in CompanyIds, pair \in SubmittedAnswerLists :
          answersApi_submit(c, AnswersOf(pair)) /\ AnswersFrame

SpecAnswers == Init /\ [][AnswersNext]_vars

(***************************************************************************)
(* Specification of the organization list request: getAll called with any  *)
(* options, the backend answering or failing                               *)
(***************************************************************************)
\* bound on the limit and offset a caller passes
MaxOption == 6

\* { limit?, offset? }, and no options at all
OptionsSets ==
    UNION {[fs -> 0..MaxOption] : fs \in SUBSET {"limit", "offset"}}

\* response bodies of GET /organizations
BackendOrganizationLists ==
    {[i \in 1..n |-> MOCK_ORGANIZATIONS[i]] :
        n \in 0..Len(MOCK_ORGANIZATIONS)}

\* organizationsApi.getAll(options): the response body, or on a failed
\* request the paginated samples
organizationsApi_getAll(options) ==
    /\ org_options' = options
    /\ \/ /\ org_failed' = FALSE
          /\ org_result' \in BackendOrganizationLists
       \/ /\ org_failed' = TRUE
          /\ org_result' = applyPagination(MOCK_ORGANIZATIONS, options)

OrgFrame ==
    UNCHANGED <<companyVars, cqVars, auditorVars, lsVars, ceVars, adVars,
                apiVars>>

OrgNext ==
    \E options \in OptionsSets : organizationsApi_getAll(options) /\ OrgFrame

SpecOrganizations == Init /\ [][OrgNext]_vars

(***************************************************************************)
(* Specification of the API layer: registrations, lookups by id and list   *)
(* fetches, the backend reachable or not at each call                      *)
(***************************************************************************)
\* bound on the registrations made
MaxRegistrations == 2

\* the ids Date.now().toString() and the backend hand out, in order
NewIdNames == <<"n1", "n2", "n3">>

\* ids asked for: sample ids, backend ids, issued ids and unknown ones
LookupIds ==
    [questions |-> ArrayToSet(QIdNames),
     provisions |-> ProvisionIds \cup {"A.9"},
     organizations |-> CompanyIds \cup {"9"} \cup ArrayToSet(NewIdNames),
     companies |-> CompanyIds \cup {"9"} \cup ArrayToSet(NewIdNames)]

\* the data of the registration form; industry is optional
RegistrationData ==
    {[name |-> "Acme", contactPerson |-> "Ann", contactEmail |-> "ann@acme",
      industry |-> i] : i \in {Undef, "IT"}}

\* obj.k, undefined when obj has no property k
Get(obj, k) == IF k \in DOMAIN obj THEN obj[k] ELSE Undef

companyRegistrationToOrganization(companyData) ==
    [organisation_name |-> companyData.name,
     scope_of_certification |-> companyData.industry]

organizationToCompany(org) ==
    Put(Put(Put(org, "name", org.organisation_name),
            "registrationDate", org.created_at),
        "status", "active")

\* what organizationsApi.create(organizationData) resolves to: the stored
\* organization the backend answers with, or, in the catch block, a new
\* organization with id Date.now(); it never rejects
organizationsApi_createResult(organizationData, reachable) ==
    LET id == NewIdNames[clock + 1]
        stored == Put(Put(Put(organizationData, "id", id),
                          "created_at", clock),
                      "updated_at", clock)
        response == api_get(reachable, stored)
    IN IF response.status = "resolved"
       THEN Resolved(response.value)
       ELSE Resolved(stored)

\* organizationsApi.create(data): POST /organizations stores the
\* organization; the organization built in the catch block is stored nowhere
organizationsApi_create(organizationData, reachable) ==
    /\ be_organizations' =
          IF reachable THEN Append(be_organizations, NewIdNames[clock + 1])
          ELSE be_organizations
    /\ clock' = clock + 1

\* what companiesApi.register(companyData) resolves to: the organization
\* organizationsApi.create resolves to, as a company; if create rejects, a
\* company with id Date.now() made of the submitted data
companiesApi_registerResult(companyData, reachable) ==
    LET organization ==
            organizationsApi_createResult(
                companyRegistrationToOrganization(companyData), reachable)
    IN IF organization.status = "resolved"
       THEN Resolved(organizationToCompany(organization.value))
       ELSE Resolved(
              Put(Put(Put(Put(Put(Put(companyData,
                  "id", NewIdNames[clock + 1]),
                  "organisation_name", companyData.name),
                  "registrationDate", clock),
                  "created_at", clock),
                  "updated_at", clock),
                  "status", "active"))

\* companiesApi.register(companyData); in the catch block the new company
\* is pushed to local storage's "companies"
companiesApi_register(companyData, reachable) ==
    /\ clock < MaxRegistrations
    /\ organizationsApi_create(
          companyRegistrationToOrganization(companyData), reachable)
    /\ ls_companies' =
          IF organizationsApi_createResult(
                companyRegistrationToOrganization(companyData),
                reachable).status = "resolved"
          THEN ls_companies
          ELSE Append(ls_companies, NewIdNames[clock + 1])
    /\ api_call' = [op |-> "register", id |-> NewIdNames[clock + 1],
                    reachable |-> reachable, data |-> companyData,
                    outcome |->
                       companiesApi_registerResult(companyData, reachable)]

\* a getById call of one of the four APIs
getById(api, id, reachable) ==
    /\ api_call' =
          [op |-> "getById", api |-> api, id |-> id,
           failed |->
              IF api \in {"organizations", "companies"}
              THEN ~(reachable /\ id \in ArrayToSet(be_organizations))
              ELSE ~reachable,
           outcome |->
              CASE api = "questions" -> questionsApi_getById(id, reachable)
                [] api = "provisions" -> provisionsApi_getById(id, reachable)
                [] api = "organizations" ->
                      organizationsApi_getById(id, reachable)
                [] api = "companies" -> companiesApi_getById(id, reachable)]
    /\ UNCHANGED <<be_organizations, ls_companies, clock>>

\* the three list fetches issued together (Promise.all), each request
\* served or failing on its own
getAll(questionsResponse, provisionsResponse, organizationsResponse) ==
    /\ api_call' =
          [op |-> "getAll",
           failed |->
              [questions |-> questionsResponse.status = "rejected",
               provisions |-> provisionsResponse.status = "rejected",
               organizations |-> organizationsResponse.status = "rejected"],
           outcome |->
              [questions |->
                  questionsApi_getAllFrom(NoOptions, questionsResponse),
               provisions |-> provisionsApi_getAllFrom(provisionsResponse),
               organizations |->
                  organizationsApi_getAllFrom(NoOptions,
                                              organizationsResponse)]]
    /\ UNCHANGED <<be_organizations, ls_companies, clock>>

\* the auditor dashboard's list: companiesApi.getAll()
\* the dashboard is opened: a fresh instance (loading = true, error = null)
\* whose effect starts loadCompanies up to its await
ad_visit ==
    /\ ad_page = "closed"
    /\ ad_page' = "loading"
    /\ ad_error' = Null
    /\ UNCHANGED <<ad_stale, auditorVars, apiVars>>

\* the dashboard is left; a request still in flight is not cancelled
ad_leave ==
    /\ ad_page /= "closed"
    /\ ad_page' = "closed"
    /\ ad_stale' = IF ad_page = "loading" THEN ad_stale + 1 ELSE ad_stale
    /\ ad_stale' <= MaxStaleLoads
    /\ UNCHANGED <<ad_error, auditorVars, apiVars>>

\* loadCompanies after the await: setCompanies(fetched), or setError in the
\* catch block, then setLoading(false)
loadCompanies(reachable) ==
    /\ ad_page = "loading"
    /\ api_call' = [op |-> "companies.getAll", reachable |-> reachable,
                    outcome |-> companiesApi_getAll(reachable)]
    /\ IF companiesApi_getAll(reachable).status = "resolved"
       THEN /\ setCompanies(companiesApi_getAll(reachable).value)
            /\ UNCHANGED ad_error
       ELSE /\ ad_error' = "Failed to load companies"
            /\ UNCHANGED auditorVars
    /\ ad_page' = "ready"
    /\ UNCHANGED <<ad_stale, be_organizations, ls_companies, clock>>

\* a loadCompanies of an earlier visit resolves: setCompanies on the store
loadCompaniesStale(reachable) ==
    /\ ad_stale > 0
    /\ api_call' = [op |-> "companies.getAll", reachable |-> reachable,
                    outcome |-> companiesApi_getAll(reachable)]
    /\ IF companiesApi_getAll(reachable).status = "resolved"
       THEN setCompanies(companiesApi_getAll(reachable).value)
       ELSE UNCHANGED auditorVars
    /\ ad_stale' = ad_stale - 1
    /\ UNCHANGED <<ad_page, ad_error, be_organizations, ls_companies, clock>>

ApiFrame ==
    UNCHANGED <<companyVars, cqVars, auditorVars, lsVars, ceVars, adVars,
                orgVars>>

DashboardFrame ==
    UNCHANGED <<companyVars, cqVars, lsVars, ceVars, orgVars>>

ApiNext ==
    \/ \E companyData \in RegistrationData, reachable \in BOOLEAN :
          companiesApi_register(companyData, reachable) /\ ApiFrame
    \/ \E api \in DOMAIN LookupIds, reachable \in BOOLEAN :
          \E id \in LookupIds[api] : getById(api, id, reachable) /\ ApiFrame
    \/ \E q \in QuestionsResponses, p \in ProvisionsResponses,
          reachable \in BOOLEAN :
          getAll(q, p, api_get(reachable, be_organizations)) /\ ApiFrame
    \/ ad_visit /\ DashboardFrame
    \/ ad_leave /\ DashboardFrame
    \/ \E reachable \in BOOLEAN : loadCompanies(reachable) /\ DashboardFrame
    \/ \E reachable \in BOOLEAN :
          loadCompaniesStale(reachable) /\ DashboardFrame

SpecApi == Init /\ [][ApiNext]_vars

(***************************************************************************)
(* Specification of the page loads: the three pages are opened and left,   *)
(* and every request settles.  One page is mounted at a time; the          *)
(* questionnaire and the dashboard are left once loaded, the evaluation    *)
(* page at any time; the backend's catalogue holds one question            *)
(***************************************************************************)
\* what GET /questions brings here: the one question, or the sample list
\* when the request fails
LoadedQuestionLists == {QuestionPrefix(1), MOCK_QUESTIONS}

QuestionsLoadSettles ==
    loadQuestions /\ questions' \in LoadedQuestionLists /\ PageFrame

CompanyLoadSettles ==
    \/ \E i \in 1..MaxLoads : loadCompanyData_company(i) /\ EvalFrame
    \/ \E i \in 1..MaxLoads :
          /\ loadCompanyData_all(i)
          /\ aud_questions' \in LoadedQuestionLists
          /\ EvalFrame

CompaniesLoadSettles ==
    \E reachable \in BOOLEAN : loadCompanies(reachable) /\ DashboardFrame

LoadsNext ==
    \/ onSubmit /\ PageFrame
    \/ cq_visit /\ ce_companyId = Null /\ ad_page = "closed" /\ PageFrame
    \/ cq_leave /\ cq_page = "ready" /\ PageFrame
    \/ loadQuestions /\ questions' \in LoadedQuestionLists /\ PageFrame
    \/ \E c \in CompanyIds :
          ce_visit(c) /\ cq_page = "closed" /\ ad_page = "closed" /\ EvalFrame
    \/ ce_leave /\ EvalFrame
    \/ \E i \in 1..MaxLoads : loadCompanyData_company(i) /\ EvalFrame
    \/ \E i \in 1..MaxLoads :
          /\ loadCompanyData_all(i)
          /\ aud_questions' \in LoadedQuestionLists
          /\ EvalFrame
    \/ ad_visit /\ cq_page = "closed" /\ ce_companyId = Null /\ DashboardFrame
    \/ ad_leave /\ ad_page = "ready" /\ DashboardFrame
    \/ \E reachable \in BOOLEAN : loadCompanies(reachable) /\ DashboardFrame

\* each request eventually settles
SpecLoads ==
    /\ Init
    /\ [][LoadsNext]_vars
    /\ WF_vars(QuestionsLoadSettles)
    /\ WF_vars(CompanyLoadSettles)
    /\ WF_vars(CompaniesLoadSettles)

(***************************************************************************)
(* Properties of the auditor store                                         *)
(***************************************************************************)
\* C7: setSelectedCompany(c) leaves evaluations and provisionEvaluations
\* empty and currentProvisionId null, so neither getter returns a judgment.
C7_SelectClearsJudgments ==
    [][\A c \in CompanyIds \cup {Null} :
          setSelectedCompany(c)
              => /\ evaluations' = EmptyMap
                 /\ provisionEvaluations' = EmptyMap
                 /\ currentProvisionId' = Null
                 /\ \A q \in Keys :
                       getEvaluationForQuestion(q)' = NoEvaluation
                 /\ \A p \in ProvisionIds :
                       getProvisionEvaluation(p)' = NoProvisionEvaluation]_vars

\* a company is selected over loaded questions and answers, no judgment held
C7_Witness ==
    /\ selectedCompany /= Null
    /\ aud_questions /= <<>>
    /\ aud_answers /= <<>>
    /\ evaluations = EmptyMap
    /\ provisionEvaluations = EmptyMap
    /\ currentProvisionId = Null

\* C8: passPercentage is 100 x passed / evaluated when evaluated > 0 and 0
\* when evaluated = 0, and is always a number between 0 and 100.
C8_PassPercentage ==
    LET pp == getEvaluationStats.passPercentage
        evaluated == Cardinality(DOMAIN evaluations)
        passed == Cardinality({k \in DOMAIN evaluations :
                                  evaluations[k].result = "pass"})
    IN /\ IsFinite(pp)
       /\ GeqInt(pp, 0)
       /\ LeqInt(pp, 100)
       /\ evaluated = 0 => pp = Num(0)
       /\ evaluated > 0 => pp.num * evaluated = 100 * passed * pp.den

\* one of two questions is evaluated, with result pass: 100, not 50
C8_Witness ==
    /\ Len(aud_questions) = 2
    /\ Cardinality(DOMAIN evaluations) = 1
    /\ getEvaluationStats.passed = 1
    /\ getEvaluationStats.passPercentage = Num(100)

(***************************************************************************)
(* Properties of the evaluation page                                       *)
(***************************************************************************)
\* C9: in every state reached through the evaluation page, evaluated =
\* passed + failed, pending = total - evaluated and 0 <= pending <= total.
C9_StatsConsistent ==
    LET stats == getEvaluationStats
    IN /\ stats.evaluated = stats.passed + stats.failed
       /\ stats.pending = stats.total - stats.evaluated
       /\ 0 <= stats.pending
       /\ stats.pending <= stats.total

(***************************************************************************)
(* Properties of the organization list request                             *)
(***************************************************************************)
\* the page fallback[offset .. offset+limit-1]: offset defaults to 0, limit
\* to the rest of the list
PageOf(fallback, options) ==
    LET offset == IF "offset" \in DOMAIN options THEN options["offset"] ELSE 0
        rest == Max(0, Len(fallback) - offset)
        size == IF "limit" \in DOMAIN options
                THEN Min(options["limit"], rest)
                ELSE rest
    IN [i \in 1..size |-> fallback[offset + i]]

\* C10: when the backend request fails, getAll({limit, offset}) returns
\* fallback[offset .. offset+limit-1], empty when offset is at or past the
\* end, for every offset >= 0 and limit >= 0, and the whole fallback list with
\* no options.
C10_FallbackPage ==
    org_failed => org_result = PageOf(MOCK_ORGANIZATIONS, org_options)

(***************************************************************************)
(* Properties of the API layer                                             *)
(***************************************************************************)
\* the ids of the fallback dataset of an API
FallbackIds(api) ==
    CASE api = "questions" ->
            {MOCK_QUESTIONS[k].id : k \in DOMAIN MOCK_QUESTIONS}
      [] api = "provisions" -> ProvisionIds
      [] api = "organizations" -> MockOrganizationIds
      [] api = "companies" ->
            MockOrganizationIds \cup ArrayToSet(ls_companies)

NotFoundMessages ==
    {"Question not found", "Provision not found", "Organization not found",
     "Company not found"}

\* a failed getById resolves to the fallback entity, or rejects with a
\* 'not found' message when the fallback dataset lacks the id
RejectsWhenAbsent ==
    IF api_call.id \in FallbackIds(api_call.api)
    THEN api_call.outcome = Resolved(api_call.id)
    ELSE /\ api_call.outcome.status = "rejected"
         /\ api_call.outcome.message \in NotFoundMessages

\* C11 as stated: every getById, companiesApi.getById included, rejects with
\* a 'not found' error when the request fails and the fallback lacks the id.
C11_EveryGetByIdRejects ==
    (api_call.op = "getById" /\ api_call.failed) => RejectsWhenAbsent

\* C11: when the backend request fails, the getById of questions, provisions
\* and organizations resolves to the fallback entity with that id or rejects
\* with a 'not found' error; companiesApi.getById resolves to null instead of
\* rejecting.
C11_GetByIdNotFound ==
    (api_call.op = "getById" /\ api_call.failed)
        => IF api_call.api = "companies"
           THEN api_call.outcome =
                   Resolved(IF api_call.id \in FallbackIds("companies")
                            THEN api_call.id ELSE Null)
           ELSE RejectsWhenAbsent

\* a failed lookup of an unknown question was rejected
C11_Witness ==
    /\ api_call.op = "getById"
    /\ api_call.api = "questions"
    /\ api_call.failed
    /\ api_call.id \notin FallbackIds("questions")
    /\ api_call.outcome = Rejected("Question not found")

\* the static dataset a list fetch falls back to
MockList(api) ==
    CASE api = "questions" -> MOCK_QUESTIONS
      [] api = "provisions" -> MOCK_PROVISIONS
      [] api = "organizations" -> MOCK_ORGANIZATIONS

\* C12: each getAll of questions, provisions and organizations resolves
\* whether or not its request failed, a failed one to the static mock
\* dataset, whatever happened to the other two.
C12_GetAllNeverRejects ==
    api_call.op = "getAll"
        => \A api \in {"questions", "provisions", "organizations"} :
              /\ api_call.outcome[api].status = "resolved"
              /\ api_call.failed[api]
                    => api_call.outcome[api].value = MockList(api)

\* the question fetch failed while the provision fetch was served
C12_Witness ==
    /\ api_call.op = "getAll"
    /\ api_call.failed["questions"]
    /\ ~api_call.failed["provisions"]
    /\ api_call.outcome["questions"] = Resolved(MOCK_QUESTIONS)
    /\ api_call.outcome["provisions"] = Resolved(MOCK_PROVISIONS)

\* C20: after companiesApi.register, with the backend reachable or not, the
\* new company can be looked up: under some backend condition
\* companiesApi.getById(its id) resolves to it and companiesApi.getAll()
\* contains it.
C20_RegisteredIsFound ==
    [][\A reachable \in BOOLEAN, id \in ArrayToSet(NewIdNames) :
          ((\E companyData \in RegistrationData :
               companiesApi_register(companyData, reachable))
           /\ api_call'.id = id)
              => \E later \in BOOLEAN :
                    /\ companiesApi_getById(id, later)' = Resolved(id)
                    /\ id \in ArrayToSet(companiesApi_getAll(later).value)']_vars

(***************************************************************************)
(* Properties of the company store's persistence and of setAnswer          *)
(***************************************************************************)
\* C13: across a restart the answer mapping and the submitted flag keep
\* their pre-restart values, and the question list and the cursor are not
\* carried over (questions empty, currentQuestionIndex 0).
C13_RestartCarriesAnswers ==
    [][rehydrate
          => /\ answers' = answers
             /\ isSubmitted' = isSubmitted
             /\ questions' = <<>>
             /\ currentQuestionIndex' = 0]_vars

\* C14: setAnswer(q, t) leaves answers[q] holding t, and leaves the entry
\* and the completed status of every other question id as they were.
C14_LastWriteWins ==
    [][\A q \in QIds, t \in Texts, f \in FileLists :
          (UNCHANGED <<isSubmitted, questions>> /\ setAnswer(q, t, f))
              => /\ answers'[q].answer = t
                 /\ \A k \in Keys \ {q} :
                       /\ k \in DOMAIN answers' <=> k \in DOMAIN answers
                       /\ k \in DOMAIN answers => answers'[k] = answers[k]
                       /\ k \in completedQuestions'
                             <=> k \in completedQuestions]_vars

\* two ids hold different answers, the first overwritten with a blank text
C14_Witness ==
    /\ QIdNames[1] \in DOMAIN answers
    /\ QIdNames[2] \in DOMAIN answers
    /\ answers[QIdNames[1]].answer = <<" ">>
    /\ answers[QIdNames[2]].answer = <<" ", "a">>
    /\ completedQuestions = {QIdNames[2]}

(***************************************************************************)
(* Properties of the auditor's evaluations                                 *)
(***************************************************************************)
\* C15: setEvaluation(q, e) makes getEvaluationForQuestion(q) return e,
\* whatever was recorded for q before, and leaves the evaluations of the other
\* questions, the provision evaluations, the selected company and the loaded
\* answers unchanged.
C15_SetEvaluationIsLocal ==
    [][\A q \in QIds, r \in EvaluationResults :
          setEvaluation(q, Evaluation(q, r))
              => /\ getEvaluationForQuestion(q)' = Evaluation(q, r)
                 /\ \A k \in Keys \ {q} :
                       getEvaluationForQuestion(k)'
                          = getEvaluationForQuestion(k)
                 /\ UNCHANGED <<provisionEvaluations, selectedCompany,
                                aud_answers>>]_vars

\* a question judged "fail" beside another judged question, with a provision
\* evaluation, a selected company and loaded answers in the store
C15_Witness ==
    /\ QIdNames[1] \in DOMAIN evaluations
    /\ evaluations[QIdNames[1]].result = "fail"
    /\ QIdNames[2] \in DOMAIN evaluations
    /\ provisionEvaluations /= EmptyMap
    /\ selectedCompany /= Null
    /\ aud_answers /= <<>>

\* C16: on the evaluation page every evaluation in the store is for a
\* question of the loaded list that has an answer among the loaded answers.
C16_EvaluationsHaveAnswers ==
    \A q \in DOMAIN evaluations :
        /\ \E k \in DOMAIN aud_questions : aud_questions[k]._id = q
        /\ FindAnswer(q) /= {}

(***************************************************************************)
(* Properties of the durable copies                                        *)
(***************************************************************************)
\* C17: after each setAnswer and each submitAnswers the persisted snapshot
\* holds the same answers and isSubmitted as the store, and after each
\* evaluation recorded on the evaluation page the entry of the question under
\* evaluations_<companyId> equals the evaluation the store holds for it.
C17_DurableMirrorsMemory ==
    [][/\ ((\E q \in Keys, t \in Texts, f \in FileLists : setAnswer(q, t, f))
              \/ submitAnswers)
          => /\ companyStorage'.answers = answers'
             /\ companyStorage'.isSubmitted = isSubmitted'
       /\ \A q \in Keys, r \in {"pass", "fail"} :
             (FindAnswer(q) /= {} /\ handleEvaluation(q, r))
                 => /\ q \in DOMAIN ls_evaluations'[ce_companyId]
                    /\ q \in DOMAIN evaluations'
                    /\ ls_evaluations'[ce_companyId][q] = evaluations'[q]]_vars

\* C19: a restart gives back the same set of completed ids, and setQuestions
\* leaves that set alone, so that reloading the questions of before the
\* restart gives getProgress() and canSubmit() their values of before.
C19_CompletionRoundTrip ==
    [][/\ rehydrate => completedQuestions' = completedQuestions
       /\ \A n \in 0..NumQuestionIds, u \in BOOLEAN :
             LET qs == IF u THEN QuestionPrefix(n)
                       ELSE QuestionPrefixNoUnderscoreId(n)
             IN setQuestions(qs)
                   => completedQuestions' = completedQuestions]_vars

(***************************************************************************)
(* Properties of the compliance report                                     *)
(***************************************************************************)
\* the ids a report is asked for: the companies, and one that is none
ReportIds == CompanyIds \cup {"c0"}

\* C18: getComplianceReport(id) is null when id is not in the companies list
\* or no company is selected; otherwise the report carries the company, all
\* current provision evaluations, their count, the count of those with
\* overallResult "pass" and overallScore = 100 x passed / total (0 when there
\* are none); getOverallComplianceScore(id) is that overallScore, or 0 when
\* the report is null.
C18_ComplianceReport ==
    \A id \in ReportIds :
        LET report == getComplianceReport(id)
            score == getOverallComplianceScore(id)
            total == Cardinality(DOMAIN provisionEvaluations)
            passed == Cardinality({p \in DOMAIN provisionEvaluations :
                         provisionEvaluations[p].overallResult = "pass"})
        IN IF id \notin ArrayToSet(companies) \/ selectedCompany = Null
           THEN report = NoReport /\ score = Num(0)
           ELSE /\ report /= NoReport
                /\ report.companyId = id
                /\ report.company = id
                /\ Len(report.provisions) = total
                /\ ArrayToSet(report.provisions)
                      = {provisionEvaluations[p] :
                            p \in DOMAIN provisionEvaluations}
                /\ report.totalProvisions = total
                /\ report.passedProvisions = passed
                /\ total = 0 => report.overallScore = Num(0)
                /\ total > 0 =>
                      /\ IsFinite(report.overallScore)
                      /\ report.overallScore.num * total
                            = 100 * passed * report.overallScore.den
                /\ score = report.overallScore

\* a listed company, a selected one, and two provisions judged pass and
\* partial: the score is 50
C18_Witness ==
    /\ selectedCompany /= Null
    /\ \E id \in ArrayToSet(companies) :
          /\ getComplianceReport(id).totalProvisions = 2
          /\ getComplianceReport(id).passedProvisions = 1
          /\ getOverallComplianceScore(id) = Num(50)
          /\ \E p \in DOMAIN provisionEvaluations :
                provisionEvaluations[p].overallResult = "partial"

(***************************************************************************)
(* Properties of submitted answers                                         *)
(***************************************************************************)
\* C21: once handleSubmit has submitted the questionnaire,
\* answersApi.getByCompanyId(company id) returns an answer for every question
\* the company answered.
C21_SubmittedIsReviewable ==
    [][(~isSubmitted /\ handleSubmit /\ isSubmitted')
          => \A q \in DOMAIN answers' :
                ~Blank(answers'[q].answer)
                    => \E k \in DOMAIN answersApi_getByCompanyId(currentCompany)' :
                          answersApi_getByCompanyId(currentCompany)'[k].questionId
                             = q]_vars

C22_RegistrationIdentity ==
    [][\A companyData \in RegistrationData, reachable \in BOOLEAN :
          companiesApi_register(companyData, reachable)
              => LET company == api_call'.outcome.value
                 IN /\ api_call'.outcome.status = "resolved"
                    /\ Get(company, "name") = companyData.name
                    /\ Get(company, "contactPerson") = companyData.contactPerson
                    /\ Get(company, "contactEmail")
                          = companyData.contactEmail]_vars

C25_EligibleMeansAnswered ==
    canSubmit =>
        \A i \in DOMAIN questions :
            /\ questions[i].id \in DOMAIN answers
            /\ ~Blank(answers[questions[i].id].answer)

\* C26: once the loads of the evaluation page have all settled and the page
\* shows a company, the store's selected company is the one the page was
\* last opened for, and the loaded answers are that company's.
C26_LastRequestedWins ==
    (ce_companyId /= Null /\ ce_loads = <<>> /\ ce_error = Null)
        => /\ selectedCompany = ce_companyId
           /\ \A k \in DOMAIN aud_answers :
                 aud_answers[k].companyId = ce_companyId

\* C27: the provision evaluations in the store were all recorded since the
\* last setSelectedCompany, so a report that carries any of them is the
\* selected company's only if it is asked for that company:
\* getComplianceReport(x) with provisions is a report of the selected company.
C27_ReportOfSelectedOnly ==
    \A x \in ReportIds :
        (getComplianceReport(x) /= NoReport
            /\ getComplianceReport(x).provisions /= <<>>)
                => x = selectedCompany

\* C28: when setCurrentCompany replaces the company by one of another id, the
\* answers and the completed set are empty and isSubmitted is false
\* afterwards.
C28_SwitchClearsQuestionnaire ==
    [][\A c \in CompanyIds :
          (currentCompany /= Null /\ currentCompany /= c
              /\ setCurrentCompany(c))
                => /\ answers' = EmptyMap
                   /\ completedQuestions' = {}
                   /\ ~isSubmitted']_vars

\* C29: once isSubmitted is true, no step of the questionnaire flow changes
\* the answers or the completed set.
C29_FrozenAfterSubmit ==
    [][isSubmitted
          => /\ answers' = answers
             /\ completedQuestions' = completedQuestions]_vars

\* C30: when an answer is typed for the question at the cursor, no other
\* question of the list has the key it is stored under.
C30_OwnKey ==
    [][\A t \in Texts :
          handleAnswerChange(t)
              => \A j \in DOMAIN questions :
                    j /= currentQuestionIndex + 1
                        => questions[j]._id /= getCurrentQuestion._id]_vars

====
